---- MODULE Spec2Model ----
(***************************************************************************)
(* Model of codex-rs/tui/src/statusline/state.rs (StatusLineState and its  *)
(* RunTimer) and of codex-rs/core/src/mcp_registry.rs (McpRegistry).       *)
(*                                                                         *)
(* Option<T> is modelled as a sequence of length 0 (None) or 1 (Some(x)).  *)
(* Instants and Durations are natural numbers of clock ticks; one second   *)
(* is TicksPerSec ticks.                                                   *)
(***************************************************************************)
EXTENDS Integers, Sequences, FiniteSets, TLC

VARIABLES
    \* ---- StatusLineState (state.rs:26-35) ----
    cwd,                  \* cwd: PathBuf
    snapshot,             \* snapshot: StatusLineSnapshot
    run_timer,            \* run_timer: Option<RunTimer>
    queued_messages,      \* queued_messages: Vec<String>
    esc_hint,             \* esc_hint: bool
    context_window_hint,  \* context_window_hint: Option<u64>
    \* ---- the environment of StatusLineState ----
    clock,                \* the value Instant::now() returns
    frames,               \* requests the last call sent to the FrameRequester
    op,                   \* the last call: its name and argument
    result,               \* what the last call returned
    \* ---- history of the run, for the properties ----
    task_phase,           \* "fresh" | "header" | "active" | "completed"
    running_time,         \* ticks that elapsed while the current timer ran
    last_label,           \* label last applied by start_task/update_run_header
    \* ---- the Frame Scheduler behind the FrameRequester ----
    pending,              \* Some(the scheduler's queue): the number of frames
                          \* requested and not yet delivered, and the parity
                          \* of the number of frames delivered; or None where
                          \* the scheduler's queue is not modelled
    \* ---- a RunTimer on its own (state.rs:215-263) ----
    timer,                \* the RunTimer
    timer_op,             \* the last call on it
    timer_result,         \* the RunTimerSnapshot the last snapshot call returned
    \* ---- McpRegistry and its file system (mcp_registry.rs) ----
    registry,             \* enabled: BTreeSet<String> of the registry in memory
    state_home,           \* the CODEX_STATE_HOME environment variable
    has_state_dir,        \* whether dirs::state_dir() is Some on this platform
    fs,                   \* the files at the candidate registry paths
    reg_op,               \* the last registry call
    reg_result,           \* what the last registry call returned
    \* ---- a save in progress, step by step (mcp_registry.rs:50-60) ----
    save_pc,              \* the step the save is about to take, or "idle"
    save_ctx,             \* the save's path, data and the file it found there
    tmp_file              \* the NamedTempFile in the parent directory

slVars == <<cwd, snapshot, run_timer, queued_messages, esc_hint,
            context_window_hint, clock, frames, op, result,
            task_phase, running_time, last_label, pending>>
tmVars == <<timer, timer_op, timer_result>>
saveVars == <<save_pc, save_ctx, tmp_file>>
regVars == <<registry, state_home, has_state_dir, fs, reg_op, reg_result,
             saveVars>>
vars == <<slVars, tmVars, regVars>>

(***************************************************************************)
(* Bounds of the model.                                                    *)
(***************************************************************************)
\* ticks per second: Duration::as_secs truncates to whole seconds
TicksPerSec == 2
\* the clock of Spec and SpecPause runs from 0 to MaxClock ticks
MaxClock == 2
\* the clock of SpecRun runs from 0 to RunSecs seconds
RunSecs == 10
\* instants a standalone RunTimer is called with: 0..MaxInstant
MaxInstant == 3
\* a standalone RunTimer takes calls while elapsed_running <= MaxElapsed
MaxElapsed == 6
\* mutators are called while fewer than MaxPending requested frames wait
MaxPending == 3

(***************************************************************************)
(* Option<T>                                                               *)
(***************************************************************************)
None == <<>>
Some(x) == <<x>>
IsSome(o) == o # <<>>
Unwrap(o) == o[1]
\* Option::or
OptionOr(a, b) == IF IsSome(a) THEN a ELSE b

(***************************************************************************)
(* Inputs                                                                  *)
(***************************************************************************)
\* paths as sequences of components; <<>> is the root "/"
Paths == { <<>>, <<"proj">> }
Headers == { "Working", "Building" }
MessageLists == { <<>>, <<"next">> }
Efforts == { None, Some("High"), Some("Medium") }
ModelLabels == { "gpt" }
OptStrings == { None, Some("x") }
GitInfos == { None, Some([branch |-> "main"]) }
Windows == { 100 }
HintWindows == { 200 }
Usage(t, i, c, o, r) ==
    [total_tokens |-> t, input_tokens |-> i, cached_input_tokens |-> c,
     output_tokens |-> o, reasoning_output_tokens |-> r]
TotalUsages == { Usage(9, 5, 2, 4, 1) }
LastUsages == { Usage(3, 2, 1, 1, 0) }
TokenInfos ==
    { None } \cup
    { Some([total_token_usage |-> t, last_token_usage |-> l,
            model_context_window |-> w]) :
        t \in TotalUsages, l \in LastUsages,
        w \in { None } \cup { Some(x) : x \in Windows } }

(***************************************************************************)
(* Time                                                                    *)
(***************************************************************************)
\* Instant::saturating_duration_since
saturating_duration_since_wrapping(now, earlier) == now - earlier
saturating_duration_since(now, earlier) ==
    IF now >= earlier THEN now - earlier ELSE 0

\* Duration::as_secs
as_secs(d) == d \div TicksPerSec

(***************************************************************************)
(* RunTimer (state.rs:215-263)                                             *)
(***************************************************************************)
RunTimer_new(now) ==
    [elapsed_running |-> 0,
     last_resume_at |-> Some(now),
     is_paused |-> FALSE,
     spinner_started_at |-> now]

\* a resume that keeps the instant of the previous resume
RunTimer_resume_keeps_instant(t, now) ==
    IF t.is_paused THEN [t EXCEPT !.is_paused = FALSE] ELSE t
\* a resume that moves the spinner anchor to the instant of the resume
RunTimer_resume_moves_spinner(t, now) ==
    IF t.is_paused
    THEN [t EXCEPT !.last_resume_at = Some(now), !.is_paused = FALSE,
                   !.spinner_started_at = now]
    ELSE t
\* a resume that restarts the measured interval also while running
RunTimer_resume_always(t, now) ==
    [t EXCEPT !.last_resume_at = Some(now), !.is_paused = FALSE]
RunTimer_resume(t, now) ==
    IF t.is_paused
    THEN [t EXCEPT !.last_resume_at = Some(now), !.is_paused = FALSE]
    ELSE t

RunTimer_pause(t, now) ==
    IF t.is_paused
    THEN t
    ELSE [t EXCEPT
            !.elapsed_running =
                IF IsSome(t.last_resume_at)
                THEN @ + saturating_duration_since(now, Unwrap(t.last_resume_at))
                ELSE @,
            !.is_paused = TRUE]

\* a snapshot that adds the time since the last resume also while paused
RunTimer_snapshot_ignores_pause(t, now) ==
    [elapsed_running |->
        IF IsSome(t.last_resume_at)
        THEN t.elapsed_running
               + saturating_duration_since(now, Unwrap(t.last_resume_at))
        ELSE t.elapsed_running,
     last_resume_at |-> t.last_resume_at,
     is_paused |-> t.is_paused]
RunTimer_snapshot(t, now) ==
    [elapsed_running |->
        IF ~t.is_paused /\ IsSome(t.last_resume_at)
        THEN t.elapsed_running
               + saturating_duration_since(now, Unwrap(t.last_resume_at))
        ELSE t.elapsed_running,
     last_resume_at |-> t.last_resume_at,
     is_paused |-> t.is_paused]

(***************************************************************************)
(* Helpers of StatusLineState                                              *)
(***************************************************************************)
\* crate::status::format_directory_display(cwd, None): an opaque string
format_directory_display(path) == <<"display", path>>

\* Path::file_name().map(to_string).filter(non-empty)
file_name(path) == IF Len(path) = 0 THEN None ELSE Some(path[Len(path)])

\* reasoning_detail (state.rs:265-271)
reasoning_detail(effort) ==
    IF effort = Some("High") THEN Some("high")
    ELSE IF effort = Some("Low") THEN Some("low")
    ELSE None

\* token_snapshot_from_info (state.rs:273-304): <<tokens, context>>
token_snapshot_from_info(info, context_window) ==
    <<[total |-> info.total_token_usage,
       last |-> Some(info.last_token_usage)],
      IF IsSome(context_window)
      THEN Some([percent_remaining |->
                    <<"percent_of_context_window_remaining",
                      info.total_token_usage, Unwrap(context_window)>>,
                 tokens_in_context |->
                    <<"tokens_in_context_window", info.total_token_usage>>,
                 window |-> Unwrap(context_window)])
      ELSE None>>

\* the precedence of update_tokens (state.rs:82)
resolve_context_window_hint_first(info, hint) ==
    OptionOr(hint, info.model_context_window)
resolve_context_window(info, hint) ==
    OptionOr(info.model_context_window, hint)

\* StatusLineSnapshot::default()
DefaultSnapshot ==
    [cwd_display |-> None, cwd_basename |-> None, cwd_fallback |-> None,
     model |-> None, tokens |-> None, context |-> None,
     environment |-> [devspace |-> None, hostname |-> None,
                      aws_profile |-> None, kubernetes_context |-> None],
     git |-> None, run_state |-> None]

\* StatusLineRunState::default()
DefaultRunState ==
    [label |-> "", show_interrupt_hint |-> FALSE, queued_messages |-> <<>>,
     timer |-> None, spinner_started_at |-> None]

\* FrameRequester: the requests one call sends
NoFrames == [immediate |-> 0, delayed |-> 0]
\* FrameRequester::schedule_frame, through request_redraw (state.rs:210-212)
request_redraw_dropped(f) == f
request_redraw(f) == [f EXCEPT !.immediate = @ + 1]
\* FrameRequester::schedule_frame_in(48 ms)
schedule_frame_in(f) == [f EXCEPT !.delayed = @ + 1]

\* the queue of the Frame Scheduler after a call: a snapshot_for_render call
\* is the repaint tick that delivers one requested frame, and every request
\* of the call, immediate or delayed, is one more frame to deliver
deliver(queue, call, requests) ==
    IF IsSome(queue)
    THEN LET tick == IF call.name = "snapshot_for_render" THEN 1 ELSE 0 IN
         Some([waiting |-> Unwrap(queue).waiting - tick
                             + requests.immediate + requests.delayed,
               delivered |-> (Unwrap(queue).delivered + tick) % 2])
    ELSE None

Call(name, arg) == [name |-> name, arg |-> arg]

\* the working-directory fields of the snapshot (state.rs:56-63)
set_cwd_fields(snap, path) ==
    LET display == format_directory_display(path)
        basename == file_name(path)
    IN [snap EXCEPT !.cwd_display = Some(display),
                    !.cwd_basename = basename,
                    !.cwd_fallback = OptionOr(basename, Some(display))]


(***************************************************************************)
(* StatusLineState (state.rs:37-213)                                       *)
(***************************************************************************)
\* StatusLineState::new (state.rs:38-52), at instant 0
InitStatusLine ==
    /\ cwd \in Paths
    /\ context_window_hint \in { None } \cup { Some(w) : w \in HintWindows }
    /\ snapshot = set_cwd_fields(DefaultSnapshot, cwd)
    /\ run_timer = None
    /\ queued_messages = <<>>
    /\ esc_hint = TRUE
    /\ clock = 0
    /\ frames = request_redraw(NoFrames)
    /\ op = Call("new", None)
    /\ result = None
    /\ task_phase = "fresh"
    /\ running_time = 0
    /\ last_label = None

\* what a plain setter leaves alone
SetterFrame(name) ==
    /\ frames' = request_redraw(NoFrames)
    /\ op' = Call(name, None)
    /\ result' = None
    /\ UNCHANGED <<run_timer, queued_messages, esc_hint, context_window_hint,
                   clock, task_phase, running_time, last_label>>
    /\ pending' = deliver(pending, op', frames')
    /\ UNCHANGED <<tmVars, regVars>>

set_working_directory(path) ==
    /\ cwd' = path
    /\ snapshot' = set_cwd_fields(snapshot, path)
    /\ SetterFrame("set_working_directory")

update_model(label, effort) ==
    /\ snapshot' = [snapshot EXCEPT
                      !.model = Some([label |-> label,
                                      detail |-> reasoning_detail(effort)])]
    /\ SetterFrame("update_model")
    /\ UNCHANGED cwd

update_tokens(info) ==
    /\ IF IsSome(info)
       THEN LET context_window ==
                    resolve_context_window(Unwrap(info), context_window_hint)
                snaps == token_snapshot_from_info(Unwrap(info), context_window)
            IN snapshot' = [snapshot EXCEPT !.tokens = Some(snaps[1]),
                                            !.context = snaps[2]]
       ELSE snapshot' = [snapshot EXCEPT !.tokens = None, !.context = None]
    /\ frames' = request_redraw(NoFrames)
    /\ op' = Call("update_tokens", info)
    /\ result' = None
    /\ UNCHANGED <<cwd, run_timer, queued_messages, esc_hint,
                   context_window_hint, clock, task_phase, running_time,
                   last_label>>
    /\ pending' = deliver(pending, op', frames')
    /\ UNCHANGED <<tmVars, regVars>>

set_git_info(git) ==
    /\ snapshot' = [snapshot EXCEPT !.git = git]
    /\ SetterFrame("set_git_info")
    /\ UNCHANGED cwd

set_devspace(devspace) ==
    /\ snapshot' = [snapshot EXCEPT
                      !.environment.devspace =
                          IF IsSome(devspace)
                          THEN Some([name |-> Unwrap(devspace)])
                          ELSE None]
    /\ SetterFrame("set_devspace")
    /\ UNCHANGED cwd

set_hostname(hostname) ==
    /\ snapshot' = [snapshot EXCEPT !.environment.hostname = hostname]
    /\ SetterFrame("set_hostname")
    /\ UNCHANGED cwd

set_aws_profile(profile) ==
    /\ snapshot' = [snapshot EXCEPT !.environment.aws_profile = profile]
    /\ SetterFrame("set_aws_profile")
    /\ UNCHANGED cwd

set_kubernetes_context(context) ==
    /\ snapshot' = [snapshot EXCEPT !.environment.kubernetes_context = context]
    /\ SetterFrame("set_kubernetes_context")
    /\ UNCHANGED cwd

\* state.rs:120-122: the session id is dropped, nothing is requested
set_session_id(session_id) ==
    /\ frames' = NoFrames
    /\ op' = Call("set_session_id", None)
    /\ result' = None
    /\ UNCHANGED <<cwd, snapshot, run_timer, queued_messages, esc_hint,
                   context_window_hint, clock, task_phase, running_time,
                   last_label>>
    /\ pending' = deliver(pending, op', frames')
    /\ UNCHANGED <<tmVars, regVars>>

\* the run sub-snapshot set_queued_messages leaves, without the copy
set_queued_messages_run_state_stale(run_state, messages) == run_state
\* the run sub-snapshot set_queued_messages leaves (state.rs:126-128)
set_queued_messages_run_state(run_state, messages) ==
    IF IsSome(run_state)
    THEN Some([Unwrap(run_state) EXCEPT !.queued_messages = messages])
    ELSE run_state

set_queued_messages(messages) ==
    /\ queued_messages' = messages
    /\ snapshot' =
         [snapshot EXCEPT
            !.run_state = set_queued_messages_run_state(@, messages)]
    /\ frames' = request_redraw(NoFrames)
    /\ op' = Call("set_queued_messages", messages)
    /\ result' = None
    /\ UNCHANGED <<cwd, run_timer, esc_hint, context_window_hint, clock,
                   task_phase, running_time, last_label>>
    /\ pending' = deliver(pending, op', frames')
    /\ UNCHANGED <<tmVars, regVars>>

\* the frames of update_run_header with the label test dropped
update_run_header_frames_always(run_state, header) ==
    request_redraw(NoFrames)
\* the frames update_run_header requests (state.rs:133-146)
update_run_header_frames(run_state, header) ==
    IF IsSome(run_state)
    THEN IF Unwrap(run_state).label # header
         THEN request_redraw(NoFrames)
         ELSE NoFrames
    ELSE request_redraw(NoFrames)

\* the timer update_run_header leaves, started when there was none
update_run_header_timer_started(t, now) ==
    IF IsSome(t) THEN t ELSE Some(RunTimer_new(now))
\* the timer update_run_header leaves: the one it found (state.rs:132-147
\* does not use run_timer)
update_run_header_timer(t, now) == t

update_run_header(header) ==
    /\ snapshot' =
         IF IsSome(snapshot.run_state)
         THEN IF Unwrap(snapshot.run_state).label # header
              THEN [snapshot EXCEPT
                      !.run_state = Some([Unwrap(@) EXCEPT !.label = header])]
              ELSE snapshot
         ELSE [snapshot EXCEPT
                 !.run_state =
                     Some([DefaultRunState EXCEPT
                             !.label = header,
                             !.show_interrupt_hint = esc_hint,
                             !.queued_messages = queued_messages])]
    /\ frames' = update_run_header_frames(snapshot.run_state, header)
    /\ op' = Call("update_run_header", header)
    /\ result' = None
    /\ task_phase' = IF task_phase = "active" THEN "active" ELSE "header"
    /\ last_label' = Some(header)
    /\ run_timer' = update_run_header_timer(run_timer, clock)
    /\ UNCHANGED <<cwd, queued_messages, esc_hint,
                   context_window_hint, clock, running_time>>
    /\ pending' = deliver(pending, op', frames')
    /\ UNCHANGED <<tmVars, regVars>>

\* the timer start_task leaves (state.rs:152-155), always a new one
start_task_timer_restarts(t, now) == Some(RunTimer_new(now))
\* the timer start_task leaves (state.rs:152-155)
start_task_timer(t, now) ==
    IF IsSome(t) THEN Some(RunTimer_resume(Unwrap(t), now))
    ELSE Some(RunTimer_new(now))

start_task(header) ==
    /\ run_timer' = start_task_timer(run_timer, clock)
    /\ snapshot' =
         [snapshot EXCEPT
            !.run_state =
                Some([(IF IsSome(@) THEN Unwrap(@) ELSE DefaultRunState) EXCEPT
                        !.label = header,
                        !.show_interrupt_hint = esc_hint,
                        !.queued_messages = queued_messages])]
    /\ frames' = request_redraw(NoFrames)
    /\ op' = Call("start_task", header)
    /\ result' = None
    /\ task_phase' = "active"
    /\ running_time' = IF IsSome(run_timer) THEN running_time ELSE 0
    /\ last_label' = Some(header)
    /\ UNCHANGED <<cwd, queued_messages, esc_hint, context_window_hint, clock>>
    /\ pending' = deliver(pending, op', frames')
    /\ UNCHANGED <<tmVars, regVars>>

\* the timer complete_task leaves, were it neither paused nor dropped
complete_task_timer_kept(t, now) == t
\* the timer complete_task leaves (state.rs:165-168): only paused, not dropped
complete_task_timer_only_paused(t, now) ==
    IF IsSome(t) THEN Some(RunTimer_pause(Unwrap(t), now)) ELSE None
\* the timer complete_task leaves (state.rs:165-168): paused, then dropped
complete_task_timer(t, now) ==
    LET paused == IF IsSome(t) THEN Some(RunTimer_pause(Unwrap(t), now))
                  ELSE None
    IN None

\* the run sub-snapshot complete_task leaves (state.rs:169), kept instead
complete_task_run_state_kept(run_state) == run_state
complete_task_run_state(run_state) == None

\* what a call finds: "absent", "running" or "paused"
TimerStatus(t) ==
    IF ~IsSome(t) THEN "absent"
    ELSE IF Unwrap(t).is_paused THEN "paused" ELSE "running"

complete_task ==
    /\ run_timer' = complete_task_timer(run_timer, clock)
    /\ snapshot' = [snapshot EXCEPT !.run_state = complete_task_run_state(@)]
    /\ frames' = request_redraw(NoFrames)
    /\ op' = Call("complete_task",
                  [timer |-> TimerStatus(run_timer),
                   run |-> IsSome(snapshot.run_state)])
    /\ result' = None
    /\ task_phase' = "completed"
    /\ running_time' = 0
    /\ UNCHANGED <<cwd, queued_messages, esc_hint, context_window_hint, clock,
                   last_label>>
    /\ pending' = deliver(pending, op', frames')
    /\ UNCHANGED <<tmVars, regVars>>

resume_timer ==
    /\ IF IsSome(run_timer)
       THEN /\ run_timer' = Some(RunTimer_resume(Unwrap(run_timer), clock))
            /\ frames' = request_redraw(NoFrames)
       ELSE /\ run_timer' = run_timer
            /\ frames' = NoFrames
    /\ op' = Call("resume_timer", None)
    /\ result' = None
    /\ UNCHANGED <<cwd, snapshot, queued_messages, esc_hint,
                   context_window_hint, clock, task_phase, running_time,
                   last_label>>
    /\ pending' = deliver(pending, op', frames')
    /\ UNCHANGED <<tmVars, regVars>>

elapsed_seconds ==
    /\ result' =
         IF IsSome(run_timer)
         THEN Some(as_secs(RunTimer_snapshot(Unwrap(run_timer), clock)
                             .elapsed_running))
         ELSE None
    /\ frames' = NoFrames
    /\ op' = Call("elapsed_seconds", None)
    /\ UNCHANGED <<cwd, snapshot, run_timer, queued_messages, esc_hint,
                   context_window_hint, clock, task_phase, running_time,
                   last_label>>
    /\ pending' = deliver(pending, op', frames')
    /\ UNCHANGED <<tmVars, regVars>>

\* the StatusLineSnapshot snapshot_for_render(now) returns (state.rs:186-194)
render_snapshot(now) ==
    IF IsSome(snapshot.run_state) /\ IsSome(run_timer)
    THEN [snapshot EXCEPT
            !.run_state =
                Some([Unwrap(@) EXCEPT
                        !.timer = Some(RunTimer_snapshot(Unwrap(run_timer), now)),
                        !.spinner_started_at =
                            Some(Unwrap(run_timer).spinner_started_at),
                        !.queued_messages = queued_messages,
                        !.show_interrupt_hint = esc_hint])]
    ELSE snapshot

\* the stored snapshot after a render that fills in the stored snapshot
\* itself instead of a clone
stored_after_render_in_place(stored, rendered) == rendered
\* the stored snapshot after a render: the render works on a clone
\* (state.rs:186), the stored one stays
stored_after_render(stored, rendered) == stored

\* the follow-up frame requested whether or not a timer runs
render_frames_always(t) == schedule_frame_in(NoFrames)
\* no follow-up frame at all
render_frames_never(t) == NoFrames
\* the follow-up frame with the pause test dropped
render_frames_ignores_pause(t) ==
    IF IsSome(t) THEN schedule_frame_in(NoFrames) ELSE NoFrames
\* the follow-up frame snapshot_for_render requests (state.rs:195-200)
render_frames(t) ==
    IF IsSome(t) /\ ~Unwrap(t).is_paused
    THEN schedule_frame_in(NoFrames)
    ELSE NoFrames

\* whether the call before this one was a render as well
RenderStreak ==
    IF op.name \in { "snapshot_for_render", "render_line" } THEN 2 ELSE 1

snapshot_for_render(now) ==
    /\ result' = render_snapshot(now)
    /\ frames' = render_frames(run_timer)
    /\ op' = Call("snapshot_for_render", [now |-> now, nth |-> RenderStreak])
    /\ snapshot' = stored_after_render(snapshot, render_snapshot(now))
    /\ UNCHANGED <<cwd, run_timer, queued_messages, esc_hint,
                   context_window_hint, clock, task_phase, running_time,
                   last_label>>
    /\ pending' = deliver(pending, op', frames')
    /\ UNCHANGED <<tmVars, regVars>>

\* state.rs:204-208; the renderer's Line is opaque
render_line(width) ==
    /\ result' = <<"Line", render_snapshot(clock), width, clock>>
    /\ frames' = render_frames(run_timer)
    /\ op' = Call("render_line", [now |-> clock, nth |-> RenderStreak])
    /\ snapshot' = stored_after_render(snapshot, render_snapshot(clock))
    /\ UNCHANGED <<cwd, run_timer, queued_messages, esc_hint,
                   context_window_hint, clock, task_phase, running_time,
                   last_label>>
    /\ pending' = deliver(pending, op', frames')
    /\ UNCHANGED <<tmVars, regVars>>

\* RunTimer::pause(Instant::now()) on the state's own timer (state.rs:240-248),
\* as code inside the module can call it
timer_pause ==
    /\ IsSome(run_timer)
    /\ run_timer' = Some(RunTimer_pause(Unwrap(run_timer), clock))
    /\ frames' = NoFrames
    /\ op' = Call("pause", None)
    /\ result' = None
    /\ UNCHANGED <<cwd, snapshot, queued_messages, esc_hint,
                   context_window_hint, clock, task_phase, running_time,
                   last_label>>
    /\ pending' = deliver(pending, op', frames')
    /\ UNCHANGED <<tmVars, regVars>>

\* the clock advances by one tick, up to limit
TickTo(limit) ==
    /\ clock < limit
    /\ clock' = clock + 1
    /\ running_time' =
         IF IsSome(run_timer) /\ ~Unwrap(run_timer).is_paused
         THEN running_time + 1
         ELSE running_time
    /\ frames' = NoFrames
    /\ op' = Call("tick", None)
    /\ result' = None
    /\ UNCHANGED <<cwd, snapshot, run_timer, queued_messages, esc_hint,
                   context_window_hint, task_phase, last_label>>
    /\ pending' = deliver(pending, op', frames')
    /\ UNCHANGED <<tmVars, regVars>>


(***************************************************************************)
(* Specifications of StatusLineState                                       *)
(***************************************************************************)
\* the parts of the state a specification does not use stay as they start
IdleTimer ==
    /\ timer = RunTimer_new(0)
    /\ timer_op = Call("new", 0)
    /\ timer_result = None
\* no save is in progress and no temporary file exists
NoSave ==
    /\ save_pc = "idle"
    /\ save_ctx = None
    /\ tmp_file = None
IdleRegistry ==
    /\ registry = {}
    /\ state_home = None
    /\ has_state_dir = FALSE
    /\ fs = <<>>
    /\ reg_op = Call("none", None)
    /\ reg_result = None
    /\ NoSave

\* the queue of the Frame Scheduler is not modelled: requests are only counted
\* per call, in frames
NoScheduler == pending = None

Init == InitStatusLine /\ NoScheduler /\ IdleTimer /\ IdleRegistry

\* the setters of the snapshot's plain fields
Setters ==
    \/ \E path \in Paths : set_working_directory(path)
    \/ \E label \in ModelLabels, effort \in Efforts : update_model(label, effort)
    \/ \E info \in TokenInfos : update_tokens(info)
    \/ \E git \in GitInfos : set_git_info(git)
    \/ \E devspace \in OptStrings : set_devspace(devspace)
    \/ \E hostname \in OptStrings : set_hostname(hostname)
    \/ \E profile \in OptStrings : set_aws_profile(profile)
    \/ \E context \in OptStrings : set_kubernetes_context(context)
    \/ \E session_id \in OptStrings : set_session_id(session_id)

\* the calls that concern the run: its label, timer, queue and rendering
RunCalls ==
    \/ \E messages \in MessageLists : set_queued_messages(messages)
    \/ \E header \in Headers : update_run_header(header)
    \/ \E header \in Headers : start_task(header)
    \/ complete_task
    \/ resume_timer
    \/ elapsed_seconds
    \/ \E now \in 0..MaxClock : snapshot_for_render(now)
    \/ \E width \in { 80 } : render_line(width)

\* the run as its callers drive it: label, timer, queue, rendering, time
Next ==
    \/ RunCalls
    \/ TickTo(MaxClock)

Spec == Init /\ [][Next]_vars

\* the same, with RunTimer::pause reachable on the state's timer
NextPause ==
    \/ RunCalls
    \/ timer_pause
    \/ TickTo(MaxClock)

SpecPause == Init /\ [][NextPause]_vars

\* one task over a clock of RunSecs seconds
NextRun ==
    \/ \E header \in { "Building" } : start_task(header)
    \/ resume_timer
    \/ timer_pause
    \/ elapsed_seconds
    \/ TickTo(RunSecs * TicksPerSec)

SpecRun == Init /\ [][NextRun]_vars

\* every mutator of StatusLineState, in any order, at one instant
NextMutators ==
    \/ Setters
    \/ \E messages \in MessageLists : set_queued_messages(messages)
    \/ \E header \in { "Working" } : update_run_header(header)
    \/ \E header \in { "Working" } : start_task(header)
    \/ complete_task
    \/ resume_timer

SpecMutators == Init /\ [][NextMutators]_vars

\* every operation of StatusLineState, mutators and reads, in any order, at
\* one instant
NextPublic ==
    \/ NextMutators
    \/ elapsed_seconds
    \/ snapshot_for_render(clock)
    \/ \E width \in { 80 } : render_line(width)

SpecPublic == Init /\ [][NextPublic]_vars


(***************************************************************************)
(* StatusLineState with the Frame Scheduler: every requested frame waits   *)
(* in the scheduler's queue until a repaint tick delivers it by calling    *)
(* snapshot_for_render                                                     *)
(***************************************************************************)
\* StatusLineState::new has requested its redraw (state.rs:50)
InitFrames ==
    /\ InitStatusLine
    /\ pending = Some([waiting |-> frames.immediate + frames.delayed,
                       delivered |-> 0])
    /\ IdleTimer
    /\ IdleRegistry

\* fewer than MaxPending requested frames wait
QueueHasRoom == Unwrap(pending).waiting < MaxPending

\* the scheduler delivers a requested frame: the event loop draws, calling
\* snapshot_for_render(Instant::now()) (state.rs:185-202)
RepaintTick ==
    /\ Unwrap(pending).waiting > 0
    /\ snapshot_for_render(clock)

NextFrames ==
    \/ RepaintTick
    \/ \E messages \in MessageLists :
          QueueHasRoom /\ set_queued_messages(messages)
    \/ \E header \in Headers : QueueHasRoom /\ update_run_header(header)
    \/ \E header \in Headers : QueueHasRoom /\ start_task(header)
    \/ QueueHasRoom /\ complete_task
    \/ QueueHasRoom /\ resume_timer
    \/ TickTo(MaxClock)

\* the scheduler delivers every frame that was requested: a repaint tick
\* that stays possible happens
SpecFrames == InitFrames /\ [][NextFrames]_vars /\ WF_vars(RepaintTick)


(***************************************************************************)
(* A RunTimer on its own: pause, resume and snapshot take any instant, in  *)
(* any order (state.rs:223-263)                                            *)
(***************************************************************************)
Instants == 0..MaxInstant

InitTimer ==
    /\ \E now \in Instants :
         /\ timer = RunTimer_new(now)
         /\ timer_op = Call("new", now)
    /\ timer_result = None

IdleStatusLine ==
    /\ cwd = <<>>
    /\ context_window_hint = None
    /\ snapshot = set_cwd_fields(DefaultSnapshot, <<>>)
    /\ run_timer = None
    /\ queued_messages = <<>>
    /\ esc_hint = TRUE
    /\ clock = 0
    /\ frames = request_redraw(NoFrames)
    /\ op = Call("new", None)
    /\ result = None
    /\ task_phase = "fresh"
    /\ running_time = 0
    /\ last_label = None
    /\ pending = None

resume(now) ==
    /\ timer' = RunTimer_resume(timer, now)
    /\ timer_op' = Call("resume", now)
    /\ timer_result' = None
    /\ UNCHANGED <<slVars, regVars>>

pause(now) ==
    /\ timer.elapsed_running <= MaxElapsed
    /\ timer' = RunTimer_pause(timer, now)
    /\ timer_op' = Call("pause", now)
    /\ timer_result' = None
    /\ UNCHANGED <<slVars, regVars>>

snapshot_at(now) ==
    /\ timer_result' = Some(RunTimer_snapshot(timer, now))
    /\ timer_op' = Call("snapshot", now)
    /\ UNCHANGED timer
    /\ UNCHANGED <<slVars, regVars>>

NextTimer ==
    \/ \E now \in Instants : resume(now)
    \/ \E now \in Instants : pause(now)
    \/ \E now \in Instants : snapshot_at(now)

InitTimerSpec == IdleStatusLine /\ InitTimer /\ IdleRegistry

SpecTimer == InitTimerSpec /\ [][NextTimer]_vars


(***************************************************************************)
(* McpRegistry (mcp_registry.rs)                                           *)
(***************************************************************************)
Ok(x) == [ok |-> TRUE, value |-> x]
Err(e) == [ok |-> FALSE, error |-> e]

\* MCP_REGISTRY_FILE (mcp_registry.rs:13)
MCP_REGISTRY_FILE == "mcp_registry.json"

\* server names, in the order of String in a BTreeSet
NamesInOrder == <<"build", "docs">>
Names == { NamesInOrder[i] : i \in 1..Len(NamesInOrder) }
Range(seq) == { seq[i] : i \in 1..Len(seq) }

\* paths as sequences of components
CodexHomes == { <<"home">> }
StateDir == <<"xdg">>
StateHomes == { None, Some(<<"home", "state">>) }

\* registry_path (mcp_registry.rs:83-93)
registry_path(codex_home) ==
    LET base == IF IsSome(state_home) THEN Unwrap(state_home)
                ELSE IF has_state_dir THEN StateDir \o <<"codex">>
                ELSE codex_home \o <<"state">>
    IN base \o <<MCP_REGISTRY_FILE>>

RegistryPaths ==
    { <<"home", "state", MCP_REGISTRY_FILE>>,
      <<"xdg", "codex", MCP_REGISTRY_FILE>> }

\* What is at a path: nothing, a file that may not be read, or a file with
\* its bytes. Bytes are UTF-8 text or not; text is a JSON document of the
\* registry's shape (doc: its "enabled" member, if it has one, an array of
\* names) or is not (doc = None).
Missing == [kind |-> "missing"]
Denied == [kind |-> "denied"]
File(bytes) == [kind |-> "file", bytes |-> bytes]
NotUtf8 == [utf8 |-> FALSE, doc |-> None]
Garbage == [utf8 |-> TRUE, doc |-> None]
Doc(enabled) == [utf8 |-> TRUE, doc |-> Some([enabled |-> enabled])]

\* files a run may find in place
InitialFiles ==
    { Missing, Denied, File(NotUtf8), File(Garbage), File(Doc(None)),
      File(Doc(Some(<<"docs", "build", "docs">>))) }

\* serde_json::to_writer_pretty(self) (mcp_registry.rs:58): the set as an
\* array in the set's order; the first name only
to_json_first_only(enabled) ==
    LET all == SelectSeq(NamesInOrder, LAMBDA n : n \in enabled)
    IN Doc(Some(IF Len(all) > 1 THEN <<all[1]>> ELSE all))
to_json(enabled) ==
    Doc(Some(SelectSeq(NamesInOrder, LAMBDA n : n \in enabled)))

\* serde_json::from_str::<McpRegistry> with #[serde(default)]
\* (mcp_registry.rs:19-23, 40)
from_str(text) ==
    IF ~IsSome(text.doc) THEN Err("parse")
    ELSE IF IsSome(Unwrap(text.doc).enabled)
         THEN Ok(Range(Unwrap(Unwrap(text.doc).enabled)))
         ELSE Ok({})

\* fs::read_to_string (mcp_registry.rs:30)
read_to_string(file) ==
    IF file.kind = "missing" THEN Err("NotFound")
    ELSE IF file.kind = "denied" THEN Err("PermissionDenied")
    ELSE IF ~file.bytes.utf8 THEN Err("InvalidData")
    ELSE Ok(file.bytes)

\* what McpRegistry::load returns for the file at its path
\* (mcp_registry.rs:30-46)
load_result(file) ==
    LET contents == read_to_string(file) IN
    IF ~contents.ok
    THEN IF contents.error = "NotFound" THEN Ok({}) ELSE contents
    ELSE LET parsed == from_str(contents.value) IN
         IF parsed.ok THEN parsed ELSE Ok({})

InitRegistry ==
    /\ registry = {}
    /\ state_home \in StateHomes
    /\ has_state_dir \in BOOLEAN
    /\ fs \in [RegistryPaths -> InitialFiles]
    /\ reg_op = Call("default", None)
    /\ reg_result = None
    /\ NoSave

\* McpRegistry::load (mcp_registry.rs:28-47)
load(codex_home) ==
    LET path == registry_path(codex_home) IN
    /\ reg_result' = load_result(fs[path])
    /\ reg_op' = Call("load",
                      [path |-> path,
                       after_save |-> /\ reg_op.name = "save"
                                      /\ reg_op.arg.ok
                                      /\ reg_op.arg.path = path])
    /\ UNCHANGED <<registry, state_home, has_state_dir, fs>>
    /\ UNCHANGED <<saveVars, slVars, tmVars>>

\* the steps of save that can fail (mcp_registry.rs:55-59)
SaveFailures == { "create_dir_all", "NamedTempFile::new_in", "to_writer_pretty",
                  "persist" }

\* McpRegistry::save (mcp_registry.rs:50-60): every step succeeds and the
\* temporary file replaces the file at the path, or a step fails and the
\* file at the path stays
save(codex_home) ==
    LET path == registry_path(codex_home) IN
    /\ \/ /\ fs' = [fs EXCEPT ![path] = File(to_json(registry))]
          /\ reg_result' = Ok(None)
          /\ reg_op' = Call("save", [path |-> path, ok |-> TRUE])
       \/ \E failure \in SaveFailures :
            /\ fs' = fs
            /\ reg_result' = Err(failure)
            /\ reg_op' = Call("save", [path |-> path, ok |-> FALSE])
    /\ UNCHANGED <<registry, state_home, has_state_dir>>
    /\ UNCHANGED <<saveVars, slVars, tmVars>>

\* McpRegistry::set_enabled (mcp_registry.rs:69-75)
set_enabled(name, enable) ==
    /\ registry' = IF enable THEN registry \cup { name }
                   ELSE registry \ { name }
    /\ reg_result' = Ok(registry' # registry)
    /\ reg_op' = Call("set_enabled", [name |-> name, enable |-> enable])
    /\ UNCHANGED <<state_home, has_state_dir, fs>>
    /\ UNCHANGED <<saveVars, slVars, tmVars>>

\* McpRegistry::is_enabled (mcp_registry.rs:78-80)
is_enabled(enabled, name) == name \in enabled

\* the process environment changes CODEX_STATE_HOME
\* (set_state_home, clear_state_home: mcp_add_remove.rs:19-30)
set_state_home(value) ==
    /\ state_home' = value
    /\ reg_result' = None
    /\ reg_op' = Call("set_state_home", value)
    /\ UNCHANGED <<registry, has_state_dir, fs>>
    /\ UNCHANGED <<saveVars, slVars, tmVars>>

NextRegistry ==
    \/ \E codex_home \in CodexHomes : load(codex_home)
    \/ \E codex_home \in CodexHomes : save(codex_home)
    \/ \E name \in Names, enable \in BOOLEAN : set_enabled(name, enable)
    \/ \E value \in StateHomes : set_state_home(value)

InitRegistrySpec == IdleStatusLine /\ IdleTimer /\ InitRegistry

SpecRegistry == InitRegistrySpec /\ [][NextRegistry]_vars

(***************************************************************************)
(* McpRegistry::save step by step (mcp_registry.rs:50-60), with another    *)
(* process loading at any step and the saving process crashing at any step *)
(***************************************************************************)
\* the bytes of a file to_writer_pretty has written only in part: the first
\* written chunks of the document, which do not parse
Truncated(written) == [utf8 |-> TRUE, doc |-> None, written |-> written]

\* where to_writer_pretty writes, were it the file at the path itself
save_write_in_place(files, tmp, path, bytes) ==
    [fs |-> [files EXCEPT ![path] = File(bytes)], tmp |-> tmp]
\* where to_writer_pretty writes: the temporary file (mcp_registry.rs:57-58)
save_write(files, tmp, path, bytes) ==
    [fs |-> files, tmp |-> Some(bytes)]

\* save is called: registry_path and path.parent() (mcp_registry.rs:51-54)
save_begin(codex_home) ==
    LET path == registry_path(codex_home) IN
    /\ save_pc = "idle"
    /\ save_pc' = "create_dir_all"
    /\ save_ctx' = Some([path |-> path, data |-> to_json(registry),
                         prev |-> fs[path]])
    /\ tmp_file' = None
    /\ reg_op' = Call("save_begin", path)
    /\ reg_result' = None
    /\ UNCHANGED <<registry, state_home, has_state_dir, fs>>
    /\ UNCHANGED <<slVars, tmVars>>

\* fs::create_dir_all(parent) succeeds (mcp_registry.rs:55)
save_create_dir_all ==
    /\ save_pc = "create_dir_all"
    /\ save_pc' = "NamedTempFile::new_in"
    /\ UNCHANGED <<registry, state_home, has_state_dir, fs, reg_op,
                   reg_result, save_ctx, tmp_file>>
    /\ UNCHANGED <<slVars, tmVars>>

\* NamedTempFile::new_in(parent) succeeds: an empty file (mcp_registry.rs:57)
save_new_tempfile ==
    /\ save_pc = "NamedTempFile::new_in"
    /\ save_pc' = "to_writer_pretty"
    /\ tmp_file' = Some(Truncated(0))
    /\ UNCHANGED <<registry, state_home, has_state_dir, fs, reg_op,
                   reg_result, save_ctx>>
    /\ UNCHANGED <<slVars, tmVars>>

\* to_writer_pretty has written a first part of the document
\* (mcp_registry.rs:58)
save_write_some ==
    LET written == save_write(fs, tmp_file, Unwrap(save_ctx).path, Truncated(1))
    IN
    /\ save_pc = "to_writer_pretty"
    /\ tmp_file = Some(Truncated(0))
    /\ fs' = written.fs
    /\ tmp_file' = written.tmp
    /\ UNCHANGED <<registry, state_home, has_state_dir, reg_op, reg_result,
                   save_pc, save_ctx>>
    /\ UNCHANGED <<slVars, tmVars>>

\* to_writer_pretty has written all of the document and returns
\* (mcp_registry.rs:58)
save_write_rest ==
    LET written == save_write(fs, tmp_file, Unwrap(save_ctx).path,
                              Unwrap(save_ctx).data)
    IN
    /\ save_pc = "to_writer_pretty"
    /\ save_pc' = "persist"
    /\ fs' = written.fs
    /\ tmp_file' = written.tmp
    /\ UNCHANGED <<registry, state_home, has_state_dir, reg_op, reg_result,
                   save_ctx>>
    /\ UNCHANGED <<slVars, tmVars>>

\* tmp.persist(path) succeeds: one rename of the temporary file over the path
\* (mcp_registry.rs:59)
save_persist ==
    /\ save_pc = "persist"
    /\ save_pc' = "idle"
    /\ fs' = [fs EXCEPT ![Unwrap(save_ctx).path] = File(Unwrap(tmp_file))]
    /\ tmp_file' = None
    /\ reg_op' = Call("save", [path |-> Unwrap(save_ctx).path, ok |-> TRUE])
    /\ reg_result' = Ok(None)
    /\ UNCHANGED <<registry, state_home, has_state_dir, save_ctx>>
    /\ UNCHANGED <<slVars, tmVars>>

\* the step save is at returns an error: `?` returns it, and dropping the
\* NamedTempFile removes the temporary file (mcp_registry.rs:55-59)
save_fails ==
    /\ save_pc \in SaveFailures
    /\ save_pc' = "idle"
    /\ tmp_file' = None
    /\ reg_op' = Call("save", [path |-> Unwrap(save_ctx).path, ok |-> FALSE])
    /\ reg_result' = Err(save_pc)
    /\ UNCHANGED <<registry, state_home, has_state_dir, fs, save_ctx>>
    /\ UNCHANGED <<slVars, tmVars>>

\* the saving process dies at the step it is at: nothing is dropped, the
\* temporary file stays as it is, the registry in memory is gone
crash ==
    /\ save_pc \in SaveFailures
    /\ save_pc' = "idle"
    /\ registry' = {}
    /\ reg_op' = Call("crash", save_pc)
    /\ reg_result' = None
    /\ UNCHANGED <<state_home, has_state_dir, fs, save_ctx, tmp_file>>
    /\ UNCHANGED <<slVars, tmVars>>

NextSave ==
    \/ \E codex_home \in CodexHomes : save_begin(codex_home)
    \/ save_create_dir_all
    \/ save_new_tempfile
    \/ save_write_some
    \/ save_write_rest
    \/ save_persist
    \/ save_fails
    \/ crash
    \/ \E codex_home \in CodexHomes : load(codex_home)
    \/ \E name \in Names, enable \in BOOLEAN :
          save_pc = "idle" /\ set_enabled(name, enable)
    \/ \E value \in StateHomes :
          save_pc = "idle" /\ set_state_home(value)

SpecSave == InitRegistrySpec /\ [][NextSave]_vars

(***************************************************************************)
(* Properties                                                              *)
(***************************************************************************)
Sec(n) == n * TicksPerSec
Renders == { "snapshot_for_render", "render_line" }
\* the StatusLineSnapshot a render call returned
Rendered == IF op.name = "render_line" THEN result[2] ELSE result

\* C1: with a clock that never goes back, the elapsed time a timer reports is
\* the time that passed while it was running: the ticks between a pause and
\* the next resume are not counted. elapsed_seconds() is that time in whole
\* seconds; start_task at 0 s, pause at 5 s, resume_timer at 8 s, query at
\* 10 s gives Some(7).
C1_ElapsedCountsRunningTimeOnly ==
    /\ IsSome(run_timer) =>
         RunTimer_snapshot(Unwrap(run_timer), clock).elapsed_running
            = running_time
    /\ (op.name = "elapsed_seconds" /\ IsSome(run_timer)) =>
         result = Some(as_secs(running_time))
    /\ ( /\ op.name = "elapsed_seconds"
         /\ IsSome(run_timer)
         /\ clock = Sec(10)
         /\ Unwrap(run_timer).spinner_started_at = 0
         /\ Unwrap(run_timer).elapsed_running = Sec(5)
         /\ Unwrap(run_timer).last_resume_at = Some(Sec(8))
         /\ ~Unwrap(run_timer).is_paused ) =>
         result = Some(7)

\* the scenario: started at 0 s, paused at 5 s, resumed at 8 s, asked at 10 s
C1_Witness ==
    /\ op.name = "elapsed_seconds"
    /\ IsSome(run_timer)
    /\ clock = Sec(10)
    /\ Unwrap(run_timer).spinner_started_at = 0
    /\ Unwrap(run_timer).elapsed_running = Sec(5)
    /\ Unwrap(run_timer).last_resume_at = Some(Sec(8))
    /\ ~Unwrap(run_timer).is_paused
    /\ running_time = Sec(7)
    /\ result = Some(7)


\* the elapsed time a snapshot of the standalone timer at now reports
ElapsedAt(now) == RunTimer_snapshot(timer, now).elapsed_running
LaterInstants == 0..(MaxInstant + 1)

\* C2: in every state a RunTimer reaches by resume and pause calls, the
\* elapsed time snapshot(now) reports does not decrease as now grows while the
\* timer runs, is never below the accumulated elapsed_running (also for a now
\* before last_resume_at), and is one value for every now while it is paused.
C2_SnapshotMonotoneInNow ==
    /\ \A n1, n2 \in LaterInstants :
         n1 <= n2 => ElapsedAt(n1) <= ElapsedAt(n2)
    /\ \A n \in LaterInstants : ElapsedAt(n) >= timer.elapsed_running
    /\ timer.is_paused =>
         \A n \in LaterInstants : ElapsedAt(n) = timer.elapsed_running
    /\ timer_op.name = "snapshot" =>
         Unwrap(timer_result).elapsed_running >= timer.elapsed_running

\* a snapshot of a running timer taken at an instant before its last resume
C2_Witness ==
    /\ timer_op.name = "snapshot"
    /\ ~timer.is_paused
    /\ timer.elapsed_running > 0
    /\ timer_op.arg < Unwrap(timer.last_resume_at)
    /\ Unwrap(timer_result).elapsed_running = timer.elapsed_running
    /\ ElapsedAt(MaxInstant + 1) > timer.elapsed_running

\* C3: from complete_task until the next start_task or update_run_header,
\* whatever the timer was before (absent, running, paused), there is no timer
\* and no run sub-snapshot: elapsed_seconds() returns None and every render
\* returns a snapshot without a run sub-snapshot.
C3_CompleteTaskClearsRun ==
    task_phase = "completed" =>
        /\ run_timer = None
        /\ snapshot.run_state = None
        /\ op.name = "elapsed_seconds" => result = None
        /\ op.name \in Renders => Rendered.run_state = None

\* complete_task has just dropped a paused timer and its run sub-snapshot
C3_Witness ==
    /\ op.name = "complete_task"
    /\ op.arg.timer = "paused"
    /\ op.arg.run
    /\ task_phase = "completed"
    /\ run_timer = None
    /\ snapshot.run_state = None

OneRedraw == [immediate |-> 1, delayed |-> 0]

\* C4 as stated: a call of update_run_header whose header is the label most
\* recently applied by start_task or update_run_header requests no redraw, in
\* every state.
C4_Original ==
    [][(op'.name = "update_run_header" /\ last_label = Some(op'.arg))
          => frames' = NoFrames]_vars

\* C4, amended: update_run_header(header) requests no redraw when a run
\* sub-snapshot exists and already carries the label header, and exactly one
\* redraw otherwise (the label changes, or the sub-snapshot is created).
C4_RedrawIffLabelChangesOrCreated ==
    [][op'.name = "update_run_header" =>
          frames' = IF /\ IsSome(snapshot.run_state)
                       /\ Unwrap(snapshot.run_state).label = op'.arg
                    THEN NoFrames
                    ELSE OneRedraw]_vars

\* update_run_header has been called with the label the sub-snapshot carried
C4_Witness ==
    /\ op.name = "update_run_header"
    /\ IsSome(snapshot.run_state)
    /\ Unwrap(snapshot.run_state).label = op.arg
    /\ frames = NoFrames

\* C5: a render call (snapshot_for_render, also through render_line) requests
\* exactly one delayed frame when a timer exists and is not paused, and none
\* otherwise; it never requests an immediate redraw; a second call in a row
\* requests again.
C5_RenderRequestsFollowUpIffRunning ==
    op.name \in Renders =>
        /\ frames.immediate = 0
        /\ frames.delayed =
             IF IsSome(run_timer) /\ ~Unwrap(run_timer).is_paused
             THEN 1 ELSE 0

\* the second of two snapshot_for_render calls in a row, timer running
C5_Witness ==
    /\ op.name = "snapshot_for_render"
    /\ op.arg.nth = 2
    /\ IsSome(run_timer)
    /\ ~Unwrap(run_timer).is_paused
    /\ frames = [immediate |-> 0, delayed |-> 1]

\* C6: after update_tokens(info) the token field is present iff info is; the
\* context field is present iff info is present and a window size resolves,
\* and its size is the model-reported one when there is one, else the hint.
C6_TokensAndContextFollowInfo ==
    op.name = "update_tokens" =>
        LET info == op.arg IN
        /\ IsSome(snapshot.tokens) <=> IsSome(info)
        /\ IsSome(snapshot.context) <=>
             /\ IsSome(info)
             /\ \/ IsSome(Unwrap(info).model_context_window)
                \/ IsSome(context_window_hint)
        /\ IsSome(snapshot.context) =>
             Unwrap(snapshot.context).window =
                IF IsSome(Unwrap(info).model_context_window)
                THEN Unwrap(Unwrap(info).model_context_window)
                ELSE Unwrap(context_window_hint)

\* info carries a model-reported size while a different hint is configured
C6_Witness ==
    /\ op.name = "update_tokens"
    /\ IsSome(op.arg)
    /\ IsSome(Unwrap(op.arg).model_context_window)
    /\ IsSome(context_window_hint)
    /\ Unwrap(Unwrap(op.arg).model_context_window) # Unwrap(context_window_hint)
    /\ IsSome(snapshot.context)

\* C7 as stated: the run sub-snapshot is present iff a task is active
\* (start_task with no complete_task after it), i.e. iff the RunTimer exists.
C7_Original ==
    /\ IsSome(snapshot.run_state) <=> task_phase = "active"
    /\ IsSome(snapshot.run_state) <=> IsSome(run_timer)

\* C7, amended: the RunTimer exists iff a task is active; the run sub-snapshot
\* is present iff start_task or update_run_header was called with no
\* complete_task after it, so it is present whenever the timer exists and
\* also after an update_run_header made with no active task.
C7_RunStateCoversTimerLifetime ==
    /\ IsSome(run_timer) <=> task_phase = "active"
    /\ IsSome(snapshot.run_state) <=> task_phase \in { "active", "header" }
    /\ IsSome(run_timer) => IsSome(snapshot.run_state)

\* update_run_header with no active task: a sub-snapshot and no timer
C7_Witness ==
    /\ op.name = "update_run_header"
    /\ task_phase = "header"
    /\ IsSome(snapshot.run_state)
    /\ run_timer = None

\* the mutators C8 names
RedrawingMutators ==
    { "new", "set_working_directory", "update_model", "update_tokens",
      "set_git_info", "set_devspace", "set_hostname", "set_aws_profile",
      "set_kubernetes_context", "set_queued_messages", "start_task",
      "complete_task" }

\* C8: construction and every mutator other than update_run_header and
\* resume_timer request exactly one immediate redraw and no delayed frame per
\* call, whatever the arguments and the state.
C8_MutatorsRequestOneRedraw ==
    op.name \in RedrawingMutators => frames = OneRedraw

\* complete_task called with no timer and no run sub-snapshot
C8_Witness ==
    /\ op.name = "complete_task"
    /\ op.arg.timer = "absent"
    /\ ~op.arg.run
    /\ frames = OneRedraw


\* C9: a load that follows a successful save to the same path returns the
\* registry that was saved: the same enabled set, so a name is reported
\* enabled by the loaded registry exactly when it was enabled at the save.
C9_SaveThenLoadRoundTrips ==
    (reg_op.name = "load" /\ reg_op.arg.after_save) =>
        /\ reg_result = Ok(registry)
        /\ \A name \in Names :
             is_enabled(reg_result.value, name) <=> is_enabled(registry, name)

\* two names enabled, saved, and loaded again
C9_Witness ==
    /\ reg_op.name = "load"
    /\ reg_op.arg.after_save
    /\ registry = Names
    /\ reg_result = Ok(Names)

\* the file at the path load read has contents that do not parse
Unparsable(file) ==
    /\ file.kind = "file"
    /\ ~(file.bytes.utf8 /\ IsSome(file.bytes.doc))

\* C10: load returns Ok with an empty enabled set when the file is missing
\* and when its contents are not parsable, and an error when the read fails
\* for another reason.
C10_LoadToleratesMissingAndUnparsable ==
    reg_op.name = "load" =>
        LET file == fs[reg_op.arg.path] IN
        /\ file.kind = "missing" => reg_result = Ok({})
        /\ Unparsable(file) => reg_result = Ok({})
        /\ file.kind = "denied" => ~reg_result.ok


\* the Duration from last_resume_at to now: their difference, and zero for a
\* now before last_resume_at
SinceResume(t, now) ==
    IF now >= Unwrap(t.last_resume_at) THEN now - Unwrap(t.last_resume_at)
    ELSE 0

\* C12: in every state a RunTimer reaches from new(now) by pause and resume
\* calls, a timer that is not paused has last_resume_at Some, and the elapsed
\* time at an instant now is elapsed_running plus the Duration from
\* last_resume_at to now while it runs and elapsed_running while it is paused;
\* a snapshot call returns that value.
C12_ElapsedIsRunningPlusSinceResume ==
    /\ ~timer.is_paused => IsSome(timer.last_resume_at)
    /\ \A now \in LaterInstants :
         ElapsedAt(now) =
             IF timer.is_paused THEN timer.elapsed_running
             ELSE timer.elapsed_running + SinceResume(timer, now)
    /\ timer_op.name = "snapshot" =>
         Unwrap(timer_result).elapsed_running =
             IF timer.is_paused THEN timer.elapsed_running
             ELSE timer.elapsed_running + SinceResume(timer, timer_op.arg)

\* a snapshot of a paused timer with accumulated time, taken at an instant
\* later than its last resume
C12_Witness ==
    /\ timer_op.name = "snapshot"
    /\ timer.is_paused
    /\ timer.elapsed_running > 0
    /\ timer_op.arg > Unwrap(timer.last_resume_at)
    /\ Unwrap(timer_result).elapsed_running = timer.elapsed_running


\* C13: start_task with no RunTimer creates one that runs, has elapsed time
\* zero and has its spinner anchor at the current instant, also after a
\* complete_task; start_task with a RunTimer only resumes it, so the
\* accumulated elapsed time and the spinner anchor stay; after either, the run
\* sub-snapshot carries the new header, the current interrupt-hint flag and
\* the current queued messages.
C13_StartTaskCreatesOrResumes ==
    [][op'.name = "start_task" =>
         /\ IsSome(run_timer')
         /\ ~Unwrap(run_timer').is_paused
         /\ ~IsSome(run_timer) =>
               /\ Unwrap(run_timer').elapsed_running = 0
               /\ Unwrap(run_timer').last_resume_at = Some(clock)
               /\ Unwrap(run_timer').spinner_started_at = clock
         /\ IsSome(run_timer) =>
               /\ Unwrap(run_timer').elapsed_running
                    = Unwrap(run_timer).elapsed_running
               /\ Unwrap(run_timer').spinner_started_at
                    = Unwrap(run_timer).spinner_started_at
               /\ Unwrap(run_timer').last_resume_at
                    = IF Unwrap(run_timer).is_paused THEN Some(clock)
                      ELSE Unwrap(run_timer).last_resume_at
         /\ IsSome(snapshot'.run_state)
         /\ Unwrap(snapshot'.run_state).label = op'.arg
         /\ Unwrap(snapshot'.run_state).show_interrupt_hint = esc_hint
         /\ Unwrap(snapshot'.run_state).queued_messages = queued_messages
    ]_vars

\* start_task has resumed a paused timer that had accumulated time and an
\* earlier spinner anchor, with a queued message carried into the run
C13_Witness ==
    /\ op.name = "start_task"
    /\ IsSome(run_timer)
    /\ Unwrap(run_timer).elapsed_running > 0
    /\ Unwrap(run_timer).last_resume_at = Some(clock)
    /\ Unwrap(run_timer).spinner_started_at < clock
    /\ Unwrap(snapshot.run_state).label = op.arg
    /\ Unwrap(snapshot.run_state).queued_messages = <<"next">>


\* C14: resume_timer with no RunTimer changes nothing and requests no redraw;
\* with a RunTimer it sets last_resume_at to the current instant and clears
\* is_paused if the timer was paused, leaves the timer's fields as they are if
\* it was running, and requests exactly one redraw.
C14_ResumeTimerOnlyWithTimer ==
    [][op'.name = "resume_timer" =>
         /\ snapshot' = snapshot
         /\ queued_messages' = queued_messages
         /\ ~IsSome(run_timer) =>
               /\ run_timer' = None
               /\ frames' = NoFrames
         /\ IsSome(run_timer) =>
               /\ frames' = OneRedraw
               /\ run_timer' =
                    IF Unwrap(run_timer).is_paused
                    THEN Some([Unwrap(run_timer) EXCEPT
                                 !.last_resume_at = Some(clock),
                                 !.is_paused = FALSE])
                    ELSE run_timer
    ]_vars

\* resume_timer has resumed a paused timer at an instant later than the
\* timer's creation
C14_Witness ==
    /\ op.name = "resume_timer"
    /\ IsSome(run_timer)
    /\ ~Unwrap(run_timer).is_paused
    /\ Unwrap(run_timer).elapsed_running > 0
    /\ Unwrap(run_timer).last_resume_at = Some(clock)
    /\ Unwrap(run_timer).spinner_started_at < clock
    /\ frames = OneRedraw


Reads == Renders \cup { "elapsed_seconds" }

\* C15: elapsed_seconds, snapshot_for_render and render_line, and the
\* RunTimer snapshot they take, leave the stored snapshot, the RunTimer and
\* the queued messages as they are; they request no redraw, and only a render
\* may request a follow-up frame; a render that follows a render for the same
\* instant returns the same snapshot.
C15_ReadsChangeNothing ==
    [][op'.name \in Reads =>
         /\ snapshot' = snapshot
         /\ run_timer' = run_timer
         /\ queued_messages' = queued_messages
         /\ <<cwd, esc_hint, context_window_hint>>'
              = <<cwd, esc_hint, context_window_hint>>
         /\ frames'.immediate = 0
         /\ op'.name = "elapsed_seconds" => frames' = NoFrames
         /\ (/\ op'.name \in Renders
             /\ op.name \in Renders
             /\ op'.arg.now = op.arg.now) => Rendered' = Rendered
    ]_vars

\* the second of two renders in a row, of a run whose timer runs and has
\* counted time: the render carries the live elapsed time and requests the
\* follow-up frame
C15_Witness ==
    /\ op.name = "snapshot_for_render"
    /\ op.arg.nth = 2
    /\ IsSome(run_timer)
    /\ ~Unwrap(run_timer).is_paused
    /\ IsSome(Rendered.run_state)
    /\ Unwrap(Unwrap(Rendered.run_state).timer).elapsed_running > 0
    /\ snapshot # Rendered
    /\ frames = schedule_frame_in(NoFrames)


\* C16: a RunTimer's spinner anchor is the instant of the start_task that
\* created it, and no call changes it while the timer exists; every render
\* while the timer exists reports that anchor.
C16_SpinnerAnchorFixed ==
    [][/\ (IsSome(run_timer) /\ IsSome(run_timer')) =>
            Unwrap(run_timer').spinner_started_at
              = Unwrap(run_timer).spinner_started_at
       /\ (~IsSome(run_timer) /\ IsSome(run_timer')) =>
            /\ op'.name = "start_task"
            /\ Unwrap(run_timer').spinner_started_at = clock
       /\ (op'.name \in Renders /\ IsSome(run_timer')) =>
            /\ IsSome(Rendered'.run_state)
            /\ Unwrap(Rendered'.run_state).spinner_started_at
                 = Some(Unwrap(run_timer').spinner_started_at)
    ]_vars

\* a render of a timer that was paused and resumed after its creation: the
\* anchor it reports is the earlier instant of the creation
C16_Witness ==
    /\ op.name \in Renders
    /\ IsSome(run_timer)
    /\ Unwrap(Unwrap(run_timer).last_resume_at)
         > Unwrap(run_timer).spinner_started_at
    /\ Unwrap(Rendered.run_state).spinner_started_at
         = Some(Unwrap(run_timer).spinner_started_at)
    /\ Unwrap(run_timer).spinner_started_at > 0


\* C17: update_run_header changes the label of the run sub-snapshot or, when
\* there is none, creates one from the header, the interrupt-hint flag and the
\* queued messages; it leaves the RunTimer, and so the elapsed time, and the
\* queued messages as they are. A render of a run sub-snapshot without a
\* RunTimer returns it with no timer snapshot and no spinner anchor and
\* requests no follow-up frame.
C17_UpdateRunHeaderOnlyLabel ==
    [][/\ op'.name = "update_run_header" =>
            /\ run_timer' = run_timer
            /\ clock' = clock
            /\ queued_messages' = queued_messages
            /\ [snapshot' EXCEPT !.run_state = None]
                 = [snapshot EXCEPT !.run_state = None]
            /\ IsSome(snapshot.run_state) =>
                  snapshot'.run_state =
                      Some([Unwrap(snapshot.run_state) EXCEPT
                              !.label = op'.arg])
            /\ ~IsSome(snapshot.run_state) =>
                  snapshot'.run_state =
                      Some([label |-> op'.arg,
                            show_interrupt_hint |-> esc_hint,
                            queued_messages |-> queued_messages,
                            timer |-> None,
                            spinner_started_at |-> None])
       /\ (/\ op'.name \in Renders
           /\ IsSome(snapshot'.run_state)
           /\ ~IsSome(run_timer')) =>
            /\ IsSome(Rendered'.run_state)
            /\ Unwrap(Rendered'.run_state).timer = None
            /\ Unwrap(Rendered'.run_state).spinner_started_at = None
            /\ frames' = NoFrames
    ]_vars

\* a render after update_run_header created the run sub-snapshot with no
\* start_task: the header is shown, with no timer
C17_Witness ==
    /\ op.name \in Renders
    /\ task_phase = "header"
    /\ ~IsSome(run_timer)
    /\ IsSome(Rendered.run_state)
    /\ Unwrap(Rendered.run_state).label = "Building"
    /\ Unwrap(Rendered.run_state).timer = None
    /\ frames = NoFrames


\* C18: the queued messages are empty after construction, are the list of
\* the most recent set_queued_messages afterwards, and in every state with a
\* run sub-snapshot that sub-snapshot stores the same list; a render of a run
\* sub-snapshot returns that list.
C18_QueuedMessagesConsistent ==
    [][/\ op.name = "new" => queued_messages = <<>>
       /\ op'.name = "set_queued_messages" => queued_messages' = op'.arg
       /\ op'.name # "set_queued_messages" =>
            queued_messages' = queued_messages
       /\ IsSome(snapshot'.run_state) =>
            Unwrap(snapshot'.run_state).queued_messages = queued_messages'
       /\ (op'.name \in Renders /\ IsSome(Rendered'.run_state)) =>
            Unwrap(Rendered'.run_state).queued_messages = queued_messages'
    ]_vars

\* a render of a run whose queued messages were set after the run began
C18_Witness ==
    /\ op.name \in Renders
    /\ task_phase = "active"
    /\ queued_messages = <<"next">>
    /\ IsSome(Rendered.run_state)
    /\ Unwrap(Rendered.run_state).queued_messages = <<"next">>
    /\ Unwrap(snapshot.run_state).queued_messages = <<"next">>


\* the file a save found or left at its path is whole: none of its bytes
\* are a part of a document
Whole(file) == file.kind = "file" => "written" \notin DOMAIN file.bytes

\* C11: from the call of save on, at every step, after a failure and after a
\* crash at any step, the file at the final path is the file save found there
\* (absent or whole) or the whole new document, never a part of it; a load at
\* any step returns what one of the two gives; a failed save leaves the file
\* it found.
C11_SaveIsAtomicAtFinalPath ==
    IsSome(save_ctx) =>
        LET path == Unwrap(save_ctx).path
            prev == Unwrap(save_ctx).prev
            new == File(Unwrap(save_ctx).data)
        IN
        /\ fs[path] \in { prev, new }
        /\ Whole(fs[path])
        /\ save_pc # "idle" => fs[path] = prev
        /\ (reg_op.name = "save" /\ ~reg_op.arg.ok) => fs[path] = prev
        /\ reg_op.name = "crash" => fs[path] = prev
        /\ (reg_op.name = "save" /\ reg_op.arg.ok) => fs[path] = new
        /\ (reg_op.name = "load" /\ reg_op.arg.path = path) =>
              reg_result \in { load_result(prev), load_result(new) }

\* another process has loaded the path while the temporary file held a part
\* of a new document that differs from the file at the path
C11_Witness ==
    /\ save_pc = "to_writer_pretty"
    /\ tmp_file = Some(Truncated(1))
    /\ reg_op.name = "load"
    /\ reg_op.arg.path = Unwrap(save_ctx).path
    /\ Unwrap(save_ctx).prev = File(Doc(Some(<<"docs", "build", "docs">>)))
    /\ Unwrap(save_ctx).data = to_json({ "build" })
    /\ fs[Unwrap(save_ctx).path] = Unwrap(save_ctx).prev
    /\ reg_result = Ok({ "build", "docs" })


\* C19: with the Frame Scheduler delivering every requested frame, a frame
\* waits in its queue whenever a task is active, and in a run in which
\* start_task is called and complete_task is not called afterwards, repaint
\* ticks occur infinitely often.
C19_AnimationSustainsItself ==
    /\ [](task_phase = "active" => Unwrap(pending).waiting > 0)
    /\ <>[](task_phase = "active") => []<><<RepaintTick>>_vars

\* the second of two repaint ticks in a row of an active task: it has
\* requested the next frame, which waits in the queue
C19_Witness ==
    /\ op.name = "snapshot_for_render"
    /\ op.arg.nth = 2
    /\ task_phase = "active"
    /\ frames = schedule_frame_in(NoFrames)
    /\ Unwrap(pending).waiting = 1

\* a step that is not a call of a mutator: a repaint tick or the clock
NoMutatorStep == op'.name \in { "snapshot_for_render", "tick" }

\* C20: a repaint tick after complete_task renders no run sub-snapshot and
\* requests no follow-up frame; in a run that ends with a completed task and
\* no further call of a mutator, the queue of requested frames becomes empty
\* and stays empty.
C20_QuiescentAfterCompletion ==
    /\ []((op.name = "snapshot_for_render" /\ task_phase = "completed") =>
            /\ Rendered.run_state = None
            /\ frames = NoFrames)
    /\ (<>[](task_phase = "completed") /\ <>[][NoMutatorStep]_vars)
         => <>[](Unwrap(pending).waiting = 0)

\* after complete_task two repaint ticks in a row, the second for the
\* follow-up frame a tick of the running task had requested, have emptied the
\* queue
C20_Witness ==
    /\ op.name = "snapshot_for_render"
    /\ op.arg.nth = 2
    /\ task_phase = "completed"
    /\ Rendered.run_state = None
    /\ frames = NoFrames
    /\ Unwrap(pending).waiting = 0


\* C21: in every state the operations of StatusLineState reach, a RunTimer
\* exists only together with a run sub-snapshot; so every render that
\* requests a follow-up frame returns a run sub-snapshot with a timer snapshot
\* and a spinner anchor.
C21_TimerImpliesRunState ==
    /\ IsSome(run_timer) => IsSome(snapshot.run_state)
    /\ (op.name \in Renders /\ frames.delayed > 0) =>
         /\ IsSome(Rendered.run_state)
         /\ IsSome(Unwrap(Rendered.run_state).timer)
         /\ IsSome(Unwrap(Rendered.run_state).spinner_started_at)

\* a render_line of a state with git info set and a timer: it requests the
\* follow-up frame and carries the timer snapshot and the spinner anchor
C21_Witness ==
    /\ op.name = "render_line"
    /\ frames = schedule_frame_in(NoFrames)
    /\ IsSome(run_timer)
    /\ IsSome(snapshot.git)
    /\ Unwrap(Rendered.run_state).timer
         = Some(RunTimer_snapshot(Unwrap(run_timer), clock))
    /\ Unwrap(Rendered.run_state).spinner_started_at
         = Some(Unwrap(run_timer).spinner_started_at)

\* C22: no sequence of the operations of StatusLineState leaves a RunTimer
\* that is paused: after every operation an existing timer runs; so
\* resume_timer leaves the timer's fields as they are, and every render with
\* a timer requests a follow-up frame. complete_task, the one caller of
\* pause, leaves no timer.
C22_NoPausedTimerBetweenCalls ==
    [][/\ IsSome(run_timer') => ~Unwrap(run_timer').is_paused
       /\ op'.name = "resume_timer" => run_timer' = run_timer
       /\ (op'.name \in Renders /\ IsSome(run_timer')) =>
            frames' = schedule_frame_in(NoFrames)
       /\ op'.name = "complete_task" => run_timer' = None
    ]_vars

\* resume_timer called on the running timer of an active task, with a model
\* set: the timer is as start_task made it
C22_Witness ==
    /\ op.name = "resume_timer"
    /\ frames = OneRedraw
    /\ IsSome(run_timer)
    /\ run_timer = Some(RunTimer_new(clock))
    /\ IsSome(snapshot.model)
    /\ task_phase = "active"

====
